---- MODULE Spec2Model ----
(***************************************************************************)
(* Model of the hackthechat note assistant: the tiered note search of      *)
(* services/notion.ts and the conversation-context state machine of        *)
(* handlers/messageHandler.ts with the intent classifier of                *)
(* services/intentClassifier.ts.                                           *)
(*                                                                         *)
(* A JavaScript string is modelled as a sequence of one-character strings, *)
(* so that includes, split, trim and toLowerCase are computed as the code  *)
(* computes them.                                                          *)
(***************************************************************************)
EXTENDS Integers, Sequences, FiniteSets, Bags, TLC

VARIABLES
  conversationContext,  \* the Map of messageHandler.ts: conversation -> context
  pages,                \* the pages this process created in the store
  aiEnabled,            \* config.bot.aiEnabled && config.ai.apiKey
  batchLeft,            \* messages the running upsert callback has yet to visit
  turn,                 \* what the last step of the callback did
  candidates,           \* search: the pages the store answers
  query,                \* search: the query text
  apiUp,                \* search: whether the store call succeeds
  results,              \* search: the list queryNotionNotes returned
  searchLog,            \* search: the message logged by the search
  phase,                \* "input" before the call of a function, "done" after
  suggestedTags,          \* suggestion: what suggestTagsFromSimilarContent gave
  parseInput,           \* correction parsing: the text handed to the parser
  parsed,               \* correction parsing: what parseTagCorrection gave
  queryReply,           \* search: the wording formatQueryResponse chose
  contextRefs,          \* interleaving: the Map, conversation -> context object
  objects,              \* interleaving: the context objects turns hold or stored
  callbacks             \* interleaving: the upsert callbacks that are running

searchVars == <<candidates, query, apiUp, results, searchLog, phase>>

functionVars == <<suggestedTags, parseInput, parsed, queryReply>>

interleavingVars == <<contextRefs, objects, callbacks>>

dialogueVars == <<conversationContext, pages, aiEnabled, batchLeft, turn>>

vars == <<conversationContext, pages, aiEnabled, batchLeft, turn, candidates,
          query, apiUp, results, searchLog, phase, suggestedTags,
          parseInput, parsed, queryReply, contextRefs, objects, callbacks>>

(***************************************************************************)
(* Bounds                                                                  *)
(***************************************************************************)
MaxNotes == 3

(***************************************************************************)
(* String primitives                                                       *)
(***************************************************************************)
UpperChars ==
  <<"A", "B", "C", "D", "E", "F", "G", "H", "I", "J", "K", "L", "M",
    "N", "O", "P", "Q", "R", "S", "T", "U", "V", "W", "X", "Y", "Z",
    "Á", "É", "Í", "Ó", "Ú", "Ñ">>

LowerChars ==
  <<"a", "b", "c", "d", "e", "f", "g", "h", "i", "j", "k", "l", "m",
    "n", "o", "p", "q", "r", "s", "t", "u", "v", "w", "x", "y", "z",
    "á", "é", "í", "ó", "ú", "ñ">>

ToLowerChar(c) ==
  IF \E i \in 1..Len(UpperChars) : UpperChars[i] = c
  THEN LowerChars[CHOOSE i \in 1..Len(UpperChars) : UpperChars[i] = c]
  ELSE c

\* String.prototype.toLowerCase
ToLowerCase(s) == [i \in 1..Len(s) |-> ToLowerChar(s[i])]

\* the characters the regular-expression class \s matches
IsSpace(c) == c \in {" ", "\n", "\t"}

\* String.prototype.includes: sub occurs in s as a contiguous substring
\* (the empty string occurs in every string)
Includes(s, sub) ==
  \E i \in 0..(Len(s) - Len(sub)) : SubSeq(s, i + 1, i + Len(sub)) = sub

RECURSIVE TrimStart(_)
TrimStart(s) ==
  IF s # <<>> /\ IsSpace(Head(s)) THEN TrimStart(Tail(s)) ELSE s

RECURSIVE TrimEnd(_)
TrimEnd(s) ==
  IF s # <<>> /\ IsSpace(s[Len(s)]) THEN TrimEnd(SubSeq(s, 1, Len(s) - 1))
  ELSE s

\* String.prototype.trim
Trim(s) == TrimEnd(TrimStart(s))

\* String.prototype.substring(0, n)
Substring0(s, n) == SubSeq(s, 1, IF n < Len(s) THEN n ELSE Len(s))

\* String.prototype.split(/\s+/): the pieces between maximal runs of
\* white space, empty leading and trailing pieces included
RECURSIVE SplitSpaces(_)
SplitSpaces(s) ==
  IF \A i \in 1..Len(s) : ~IsSpace(s[i]) THEN <<s>>
  ELSE LET i == CHOOSE k \in 1..Len(s) :
                  IsSpace(s[k]) /\ \A m \in 1..(k - 1) : ~IsSpace(s[m])
           j == CHOOSE k \in i..Len(s) :
                  /\ \A m \in i..k : IsSpace(s[m])
                  /\ (k = Len(s) \/ ~IsSpace(s[k + 1]))
       IN  <<SubSeq(s, 1, i - 1)>> \o SplitSpaces(SubSeq(s, j + 1, Len(s)))

Max(S) == CHOOSE x \in S : \A y \in S : y <= x

Min(S) == CHOOSE x \in S : \A y \in S : x <= y

\* Array.prototype.join
RECURSIVE Join(_, _)
Join(parts, sep) ==
  IF parts = <<>> THEN <<>>
  ELSE IF Len(parts) = 1 THEN parts[1]
  ELSE parts[1] \o sep \o Join(Tail(parts), sep)

\* Array.prototype.includes
Member(seq, x) == \E i \in 1..Len(seq) : seq[i] = x

(***************************************************************************)
(* Search engine: services/notion.ts                                       *)
(***************************************************************************)
stopWords ==
  << <<"e", "l">>,
     <<"l", "a">>,
     <<"d", "e">>,
     <<"q", "u", "e">>,
     <<"y">>,
     <<"a">>,
     <<"e", "n">>,
     <<"u", "n">>,
     <<"e", "s">>,
     <<"s", "e">>,
     <<"n", "o">>,
     <<"t", "e">>,
     <<"l", "o">>,
     <<"l", "e">>,
     <<"d", "a">>,
     <<"s", "u">>,
     <<"p", "o", "r">>,
     <<"s", "o", "n">>,
     <<"c", "o", "n">>,
     <<"p", "a", "r", "a">>,
     <<"l", "a", "s">>,
     <<"d", "e", "l">>,
     <<"l", "o", "s">> >>
synonyms ==
  << [word |-> <<"a", "r", "e", "p", "a", "s">>,
      related |-> << <<"a", "r", "e", "p", "a">>,
                     <<"v", "e", "n", "e", "z", "u", "e", "l", "a", "n", "a">>,
                     <<"h", "a", "r", "i", "n", "a">>,
                     <<"m", "a", "i", "z">> >>],
     [word |-> <<"p", "a", "s", "t", "a">>,
      related |-> << <<"e", "s", "p", "a", "g", "u", "e", "t", "i">>,
                     <<"l", "i", "n", "g", "u", "i", "n", "i">>,
                     <<"m", "a", "c", "a", "r", "r", "o", "n", "e", "s">>,
                     <<"i", "t", "a", "l", "i", "a", "n", "a">> >>],
     [word |-> <<"v", "i", "n", "o">>,
      related |-> << <<"c", "o", "p", "a">>,
                     <<"b", "o", "t", "e", "l", "l", "a">>,
                     <<"t", "i", "n", "t", "o">>,
                     <<"b", "l", "a", "n", "c", "o">> >>],
     [word |-> <<"v", "i", "d", "e", "o">>,
      related |-> << <<"t", "u", "t", "o", "r", "i", "a", "l">>,
                     <<"y", "o", "u", "t", "u", "b", "e">> >>],
     [word |-> <<"r", "e", "c", "e", "t", "a">>,
      related |-> << <<"c", "o", "c", "i", "n", "a", "r">>,
                     <<"p", "r", "e", "p", "a", "r", "a", "r">>,
                     <<"i", "n", "g", "r", "e", "d", "i", "e", "n", "t", "e", "s">> >>],
     [word |-> <<"e", "v", "e", "n", "t", "o">>,
      related |-> << <<"a", "c", "t", "i", "v", "i", "d", "a", "d">>,
                     <<"r", "e", "u", "n", "i", "o", "n">>,
                     <<"c", "i", "t", "a">>,
                     <<"p", "l", "a", "n">> >>],
     [word |-> <<"t", "r", "a", "b", "a", "j", "o">>,
      related |-> << <<"o", "f", "i", "c", "i", "n", "a">>,
                     <<"l", "a", "b", "o", "r", "a", "l">>,
                     <<"p", "r", "o", "y", "e", "c", "t", "o">> >>],
     [word |-> <<"v", "i", "a", "j", "e">>,
      related |-> << <<"t", "u", "r", "i", "s", "m", "o">>,
                     <<"d", "e", "s", "t", "i", "n", "o">>,
                     <<"v", "a", "c", "a", "c", "i", "o", "n", "e", "s">> >>] >>

KeepQueryWord(word) == Len(word) > 2 /\ ~Member(stopWords, word)

\* .filter(word => word.length > 2 && !stopWords.includes(word))
RECURSIVE FilterQueryWords(_)
FilterQueryWords(words) ==
  IF words = <<>> THEN <<>>
  ELSE IF KeepQueryWord(Head(words))
       THEN <<Head(words)>> \o FilterQueryWords(Tail(words))
       ELSE FilterQueryWords(Tail(words))

\* relevancia and coincidencias of one note in the exact tier
ExactPhrase(note, queryLower) ==
  LET tituloLower == ToLowerCase(note.titulo)
      contenidoLower == ToLowerCase(note.contenido)
      etiquetasText == ToLowerCase(Join(note.etiquetas, <<" ">>))
      t == Includes(tituloLower, queryLower)
      c == Includes(contenidoLower, queryLower)
      e == Includes(etiquetasText, queryLower)
  IN  [relevancia |-> (IF t THEN 30 ELSE 0) + (IF c THEN 25 ELSE 0)
                        + (IF e THEN 20 ELSE 0),
       coincidencias |->
            (IF t THEN <<[kind |-> "TituloExacto", word |-> queryLower]>>
                  ELSE <<>>)
         \o (IF c THEN <<[kind |-> "ContenidoExacto", word |-> queryLower]>>
                  ELSE <<>>)
         \o (IF e THEN <<[kind |-> "EtiquetaExacta", word |-> queryLower]>>
                  ELSE <<>>)]

RECURSIVE ExactWords(_, _)
ExactWords(note, queryWords) ==
  IF queryWords = <<>> THEN [relevancia |-> 0, coincidencias |-> <<>>]
  ELSE LET word == Head(queryWords)
           t == Includes(ToLowerCase(note.titulo), word)
           c == Includes(ToLowerCase(note.contenido), word)
           e == Includes(ToLowerCase(Join(note.etiquetas, <<" ">>)), word)
           rest == ExactWords(note, Tail(queryWords))
       IN  [relevancia |-> (IF t THEN 15 ELSE 0) + (IF c THEN 12 ELSE 0)
                             + (IF e THEN 10 ELSE 0) + rest.relevancia,
            coincidencias |->
                 (IF t THEN <<[kind |-> "TituloPalabra", word |-> word]>>
                       ELSE <<>>)
              \o (IF c THEN <<[kind |-> "ContenidoPalabra", word |-> word]>>
                       ELSE <<>>)
              \o (IF e THEN <<[kind |-> "EtiquetaPalabra", word |-> word]>>
                       ELSE <<>>)
              \o rest.coincidencias]

\* ExactScore with the per-word points added on top of a phrase match
ExactScore_additive(note, queryLower, queryWords) ==
  LET phrase == ExactPhrase(note, queryLower)
      words == ExactWords(note, queryWords)
  IN  [relevancia |-> phrase.relevancia + words.relevancia,
       coincidencias |-> phrase.coincidencias \o words.coincidencias]

ExactScore(note, queryLower, queryWords) ==
  LET phrase == ExactPhrase(note, queryLower)
  IN  IF phrase.relevancia = 0 THEN ExactWords(note, queryWords) ELSE phrase

\* RelatedWords with the table read backwards: the domain terms that list
\* the query word as related
RelatedWords_reversed(word) ==
  LET keys == {i \in 1..Len(synonyms) : Member(synonyms[i].related, word)}
  IN  IF keys = {} THEN <<>> ELSE <<synonyms[Min(keys)].word>>

\* the related words of a query word: synonyms[word] || []
RelatedWords(word) ==
  IF \E i \in 1..Len(synonyms) : synonyms[i].word = word
  THEN synonyms[CHOOSE i \in 1..Len(synonyms) : synonyms[i].word = word].related
  ELSE <<>>

RECURSIVE SynonymHits(_, _, _)
SynonymHits(note, word, related) ==
  IF related = <<>> THEN [relevancia |-> 0, coincidencias |-> <<>>]
  ELSE LET synonym == Head(related)
           t == Includes(ToLowerCase(note.titulo), synonym)
           c == Includes(ToLowerCase(note.contenido), synonym)
           e == Includes(ToLowerCase(Join(note.etiquetas, <<" ">>)), synonym)
           rest == SynonymHits(note, word, Tail(related))
       IN  [relevancia |-> (IF t THEN 5 ELSE 0) + (IF c THEN 3 ELSE 0)
                             + (IF e THEN 4 ELSE 0) + rest.relevancia,
            coincidencias |->
                 (IF t THEN <<[kind |-> "TituloRelacionado", word |-> word,
                               synonym |-> synonym]>> ELSE <<>>)
              \o (IF c THEN <<[kind |-> "ContenidoRelacionado", word |-> word,
                               synonym |-> synonym]>> ELSE <<>>)
              \o (IF e THEN <<[kind |-> "EtiquetaRelacionada", word |-> word,
                               synonym |-> synonym]>> ELSE <<>>)
              \o rest.coincidencias]

RECURSIVE SynonymScore(_, _)
SynonymScore(note, queryWords) ==
  IF queryWords = <<>> THEN [relevancia |-> 0, coincidencias |-> <<>>]
  ELSE LET here == SynonymHits(note, Head(queryWords),
                               RelatedWords(Head(queryWords)))
           rest == SynonymScore(note, Tail(queryWords))
       IN  [relevancia |-> here.relevancia + rest.relevancia,
            coincidencias |-> here.coincidencias \o rest.coincidencias]

RECURSIVE FuzzyScore(_, _)
FuzzyScore(note, queryWords) ==
  IF queryWords = <<>> THEN [relevancia |-> 0, coincidencias |-> <<>>]
  ELSE LET word == Head(queryWords)
           hit == /\ Len(word) > 4
                  /\ \/ Includes(ToLowerCase(note.titulo), Substring0(word, 4))
                     \/ Includes(ToLowerCase(note.contenido),
                                 Substring0(word, 4))
           rest == FuzzyScore(note, Tail(queryWords))
       IN  [relevancia |-> (IF hit THEN 1 ELSE 0) + rest.relevancia,
            coincidencias |->
                 (IF hit THEN <<[kind |-> "Parcial", word |-> word]>>
                         ELSE <<>>)
              \o rest.coincidencias]

\* {...note, relevancia, coincidencias}; an undefined coincidencias is the
\* empty sequence
Scored(note, score) ==
  [id |-> note.id, titulo |-> note.titulo, contenido |-> note.contenido,
   etiquetas |-> note.etiquetas, relevancia |-> score.relevancia,
   coincidencias |-> score.coincidencias]

\* .filter(note => note.relevancia > 0)
RECURSIVE FilterRelevant(_)
FilterRelevant(seq) ==
  IF seq = <<>> THEN <<>>
  ELSE IF Head(seq).relevancia > 0
       THEN <<Head(seq)>> \o FilterRelevant(Tail(seq))
       ELSE FilterRelevant(Tail(seq))

\* Array.prototype.sort((a, b) => b.relevancia - a.relevancia): a stable
\* sort, descending by relevancia
RECURSIVE InsertByRelevancia(_, _)
InsertByRelevancia(x, sorted) ==
  IF sorted = <<>> THEN <<x>>
  ELSE IF Head(sorted).relevancia >= x.relevancia
       THEN <<Head(sorted)>> \o InsertByRelevancia(x, Tail(sorted))
       ELSE <<x>> \o sorted

RECURSIVE SortInto(_, _)
SortInto(seq, acc) ==
  IF seq = <<>> THEN acc
  ELSE SortInto(Tail(seq), InsertByRelevancia(Head(seq), acc))

\* SortByRelevancia without the sort
SortByRelevancia_unsorted(seq) == seq

\* SortByRelevancia with equal relevance in reverse candidate order
SortByRelevancia_unstable(seq) ==
  SortInto([i \in 1..Len(seq) |-> seq[Len(seq) + 1 - i]], <<>>)

SortByRelevancia(seq) == SortInto(seq, <<>>)

searchExactMatches(notes, queryLower, queryWords) ==
  SortByRelevancia(FilterRelevant(
    [i \in 1..Len(notes) |->
       Scored(notes[i], ExactScore(notes[i], queryLower, queryWords))]))

searchWithSynonyms(notes, queryWords) ==
  SortByRelevancia(FilterRelevant(
    [i \in 1..Len(notes) |->
       Scored(notes[i], SynonymScore(notes[i], queryWords))]))

searchFuzzy(notes, queryWords) ==
  SortByRelevancia(FilterRelevant(
    [i \in 1..Len(notes) |->
       Scored(notes[i], FuzzyScore(notes[i], queryWords))]))

QueryLower(q) == Trim(ToLowerCase(q))

QueryWords(q) == FilterQueryWords(SplitSpaces(QueryLower(q)))

\* performIntelligentSearch with the three tiers merged
performIntelligentSearch_merged(notes, q) ==
  searchExactMatches(notes, QueryLower(q), QueryWords(q))
    \o searchWithSynonyms(notes, QueryWords(q))
    \o searchFuzzy(notes, QueryWords(q))

performIntelligentSearch(notes, q) ==
  LET queryLower == QueryLower(q)
      queryWords == QueryWords(q)
      exactMatches == searchExactMatches(notes, queryLower, queryWords)
      synonymMatches == searchWithSynonyms(notes, queryWords)
      fuzzyMatches == searchFuzzy(notes, queryWords)
  IN  IF Len(exactMatches) > 0 THEN exactMatches
      ELSE IF Len(synonymMatches) > 0 THEN synonymMatches
      ELSE fuzzyMatches

\* the logger.info message performIntelligentSearch writes before returning
SearchLogMessage(notes, q) ==
  LET queryLower == QueryLower(q)
      queryWords == QueryWords(q)
  IN  IF Len(searchExactMatches(notes, queryLower, queryWords)) > 0
      THEN "Found exact matches"
      ELSE IF Len(searchWithSynonyms(notes, queryWords)) > 0
      THEN "Found synonym matches"
      ELSE "Search completed"

\* queryNotionNotes(query) with the pages the store answers; a failed store
\* call is caught and answered with no notes.  An empty query is falsy and
\* skips the search.
queryNotionNotes(pagesOfStore, q, up) ==
  IF ~up THEN <<>>
  ELSE IF q # <<>> THEN performIntelligentSearch(pagesOfStore, q)
  ELSE pagesOfStore

\* texts of notes and queries
S_PastaItaliana == <<"P", "a", "s", "t", "a", " ", "i", "t", "a", "l", "i", "a", "n", "a">>
S_pastaConTomate == <<"p", "a", "s", "t", "a", " ", "c", "o", "n", " ", "t", "o", "m", "a", "t", "e">>
S_Recetas == <<"R", "e", "c", "e", "t", "a", "s">>
S_Ideas == <<"I", "d", "e", "a", "s">>
S_EspaguetiRojo == <<"E", "s", "p", "a", "g", "u", "e", "t", "i", " ", "r", "o", "j", "o">>
S_conTomate == <<"c", "o", "n", " ", "t", "o", "m", "a", "t", "e">>
S_PastaFria == <<"P", "a", "s", "t", "a", " ", "f", "r", "i", "a">>
S_pasta == <<"p", "a", "s", "t", "a">>
S_Cena == <<"C", "e", "n", "a">>
S_espagueti == <<"e", "s", "p", "a", "g", "u", "e", "t", "i">>
S_empty == <<>>
S_blank == <<" ">>
S_con == <<"c", "o", "n">>
S_elDeLa == <<"e", "l", " ", "d", "e", " ", "l", "a">>
S_pastaTomate == <<"p", "a", "s", "t", "a", " ", "t", "o", "m", "a", "t", "e">>
S_tomates == <<"t", "o", "m", "a", "t", "e", "s">>
S_receta == <<"r", "e", "c", "e", "t", "a">>

L_cambia == <<"c", "a", "m", "b", "i", "a">>
L_etiqueta == <<"e", "t", "i", "q", "u", "e", "t", "a">>
L_deberiaSer == <<"d", "e", "b", "e", "r", "í", "a", " ", "s", "e", "r">>
L_categoria == <<"c", "a", "t", "e", "g", "o", "r", "í", "a">>
L_hola == <<"h", "o", "l", "a">>
L_gracias == <<"g", "r", "a", "c", "i", "a", "s">>
T_cambia == <<"c", "a", "m", "b", "i", "a", " ", "l", "a", " ", "e", "t", "i", "q", "u", "e", "t", "a", " ", "a", " ", "R", "e", "c", "e", "t", "a", "s", ",", " ", "I", "d", "e", "a", "s">>
T_noEntiendo == <<"n", "o", " ", "e", "n", "t", "i", "e", "n", "d", "o">>
T_hola == <<"H", "o", "l", "a">>
T_laEtiqueta == <<"l", "a", " ", "e", "t", "i", "q", "u", "e", "t", "a", " ", "R", "e", "c", "e", "t", "a", "s", ",", " ", "I", "d", "e", "a", "s">>
T_guarda == <<"g", "u", "a", "r", "d", "a", " ", "p", "a", "s", "t", "a", " ", "c", "o", "n", " ", "t", "o", "m", "a", "t", "e">>
U_user1 == <<"u", "1", "@", "s", ".", "w", "h", "a", "t", "s", "a", "p", "p", ".", "n", "e", "t">>
U_user2 == <<"u", "2", "@", "s", ".", "w", "h", "a", "t", "s", "a", "p", "p", ".", "n", "e", "t">>
U_group == <<"g", "1", "@", "g", ".", "u", "s">>
L_groupSuffix == <<"@", "g", ".", "u", "s">>

(***************************************************************************)
(* Tag-correction parsing: services/intentClassifier.ts                    *)
(***************************************************************************)
\* the characters of s[a..b] are all matched by the regular expression `.`
DotRun(s, a, b) == \A m \in a..b : s[m] \notin {"\n", "\r"}

\* the last position of the line that position m starts
LineEnd(s, m) ==
  Max({e \in (m - 1)..Len(s) : DotRun(s, m, e)})

\* the literal lit (lower case) occurs in s at position i, ignoring case
LitAt(s, lit, i) ==
  /\ i >= 1
  /\ i + Len(lit) - 1 <= Len(s)
  /\ ToLowerCase(SubSeq(s, i, i + Len(lit) - 1)) = lit

\* \s+(.+) after position k: the positions where the group can start
GroupStarts(s, k) ==
  {m \in (k + 2)..Len(s) :
     /\ \A w \in (k + 1)..(m - 1) : IsSpace(s[w])
     /\ DotRun(s, m, m)}

\* the captured group of a greedy \s+(.+) after position k
SpacesThenGroup(s, k) ==
  LET m == Max(GroupStarts(s, k)) IN SubSeq(s, m, LineEnd(s, m))

\* /cambia.*etiqueta.*a\s+(.+)/i
ArticleAfter(s, j) ==
  {k \in (j + Len(L_etiqueta))..Len(s) :
     /\ ToLowerChar(s[k]) = "a"
     /\ DotRun(s, j + Len(L_etiqueta), k - 1)
     /\ GroupStarts(s, k) # {}}

EtiquetaAfter(s, i) ==
  {j \in (i + Len(L_cambia))..Len(s) :
     /\ LitAt(s, L_etiqueta, j)
     /\ DotRun(s, i + Len(L_cambia), j - 1)
     /\ ArticleAfter(s, j) # {}}

CambiaStarts(s) ==
  {i \in 1..Len(s) : LitAt(s, L_cambia, i) /\ EtiquetaAfter(s, i) # {}}

MatchCambia(s) ==
  IF CambiaStarts(s) = {} THEN [matched |-> FALSE, group |-> <<>>]
  ELSE LET i == Min(CambiaStarts(s))
           j == Max(EtiquetaAfter(s, i))
           k == Max(ArticleAfter(s, j))
       IN  [matched |-> TRUE, group |-> SpacesThenGroup(s, k)]

\* /debería ser\s+(.+)/i
DeberiaStarts(s) ==
  {i \in 1..Len(s) :
     /\ LitAt(s, L_deberiaSer, i)
     /\ GroupStarts(s, i + Len(L_deberiaSer) - 1) # {}}

MatchDeberiaSer(s) ==
  IF DeberiaStarts(s) = {} THEN [matched |-> FALSE, group |-> <<>>]
  ELSE [matched |-> TRUE,
        group |-> SpacesThenGroup(s, Min(DeberiaStarts(s))
                                       + Len(L_deberiaSer) - 1)]

\* /etiqueta.*(.+)/i and /categoría.*(.+)/i: the greedy .* runs to the end
\* of the line and gives back one character to the group
KeywordStarts(s, lit) ==
  {i \in 1..Len(s) :
     /\ LitAt(s, lit, i)
     /\ i + Len(lit) <= Len(s)
     /\ DotRun(s, i + Len(lit), i + Len(lit))}

MatchKeyword(s, lit) ==
  IF KeywordStarts(s, lit) = {} THEN [matched |-> FALSE, group |-> <<>>]
  ELSE LET e == LineEnd(s, Min(KeywordStarts(s, lit)) + Len(lit))
       IN  [matched |-> TRUE, group |-> <<s[e]>>]

\* String.prototype.split(/[,y]/)
RECURSIVE SplitTags(_)
SplitTags(s) ==
  IF \A i \in 1..Len(s) : s[i] \notin {",", "y"} THEN <<s>>
  ELSE LET i == Min({k \in 1..Len(s) : s[k] \in {",", "y"}})
       IN  <<SubSeq(s, 1, i - 1)>> \o SplitTags(SubSeq(s, i + 1, Len(s)))

\* .map(tag => tag.trim()).filter(tag => tag.length > 0)
RECURSIVE TrimAndDropEmpty(_)
TrimAndDropEmpty(parts) ==
  IF parts = <<>> THEN <<>>
  ELSE IF Trim(Head(parts)) # <<>>
       THEN <<Trim(Head(parts))>> \o TrimAndDropEmpty(Tail(parts))
       ELSE TrimAndDropEmpty(Tail(parts))

NewTagsOf(group) == TrimAndDropEmpty(SplitTags(Trim(group)))

\* the first pattern that matches decides; matched = FALSE is the null result
parseTagCorrection(message) ==
  LET m1 == MatchCambia(message)
      m2 == MatchDeberiaSer(message)
      m3 == MatchKeyword(message, L_etiqueta)
      m4 == MatchKeyword(message, L_categoria)
      NoMatch == [matched |-> FALSE, newTags |-> <<>>]
      Found(m) == [matched |-> TRUE, newTags |-> NewTagsOf(m.group)]
  IN  IF m1.matched THEN Found(m1)
      ELSE IF m2.matched THEN Found(m2)
      ELSE IF m3.matched THEN Found(m3)
      ELSE IF m4.matched THEN Found(m4)
      ELSE NoMatch

(***************************************************************************)
(* Search inputs: the pages the store answers and the query                *)
(***************************************************************************)
NotePasta ==
  [id |-> "n1", titulo |-> S_PastaItaliana, contenido |-> S_pastaConTomate,
   etiquetas |-> <<S_Recetas>>]

NoteEspagueti ==
  [id |-> "n2", titulo |-> S_EspaguetiRojo, contenido |-> S_conTomate,
   etiquetas |-> <<S_Recetas>>]

NoteFria ==
  [id |-> "n3", titulo |-> S_PastaFria, contenido |-> S_pasta,
   etiquetas |-> <<S_Ideas>>]

NoteCena ==
  [id |-> "n4", titulo |-> S_Cena, contenido |-> S_pasta, etiquetas |-> <<>>]

\* a page that names a synonym of 'pasta' in its title, body and tag
NoteSalsa ==
  [id |-> "n5", titulo |-> S_EspaguetiRojo, contenido |-> S_espagueti,
   etiquetas |-> <<S_espagueti>>]

NoteUniverse == {NotePasta, NoteEspagueti, NoteFria, NoteCena, NoteSalsa}

Queries ==
  {S_pasta, S_espagueti, S_empty, S_blank, S_con, S_elDeLa, S_pastaTomate,
   S_tomates, S_receta}

\* sequences of distinct pages, at most MaxNotes of them
CandidateSeqs ==
  UNION {{s \in [1..n -> NoteUniverse] :
            \A i, j \in 1..n : i # j => s[i].id # s[j].id} : n \in 0..MaxNotes}

(***************************************************************************)
(* Store adapter: services/notion.ts                                       *)
(***************************************************************************)
\* The value createNotionNote returns on success is the boolean true; the
\* identifiers of the store's pages are strings.
JsTrue == [js |-> "boolean", v |-> 1]

PageId(n) == [js |-> "string", v |-> n]

PageIds(pgs) == {pgs[i].id : i \in 1..Len(pgs)}

\* a missing (undefined) array field of the classification output
Missing == [present |-> FALSE, tags |-> <<>>]

Tags(seq) == [present |-> TRUE, tags |-> seq]

\* createNotionNote: note.etiquetas.map inside the try block throws for a
\* missing etiquetas, and every failure is answered with false
createNotionNote(pgs, note, up) ==
  IF ~note.etiquetas.present \/ ~up THEN [ok |-> FALSE, pages |-> pgs]
  ELSE [ok |-> TRUE,
        pages |-> Append(pgs, [id |-> PageId(Len(pgs) + 1),
                               titulo |-> note.titulo,
                               contenido |-> note.contenido,
                               etiquetas |-> note.etiquetas.tags])]

\* updateNoteTags: the store updates the page named noteId; a missing
\* newTags, a failing call and an unknown page are answered with false
updateNoteTags(pgs, noteId, newTags, up) ==
  IF ~newTags.present \/ ~up \/ noteId \notin PageIds(pgs)
  THEN [ok |-> FALSE, pages |-> pgs]
  ELSE [ok |-> TRUE,
        pages |-> [i \in 1..Len(pgs) |->
                     IF pgs[i].id = noteId
                     THEN [pgs[i] EXCEPT !.etiquetas = newTags.tags]
                     ELSE pgs[i]]]

\* the store's filter {property: 'Tags', multi_select: {contains: etiqueta}}
RECURSIVE FilterByTag(_, _)
FilterByTag(notes, etiqueta) ==
  IF notes = <<>> THEN <<>>
  ELSE IF Member(Head(notes).etiquetas, etiqueta)
       THEN <<Head(notes)>> \o FilterByTag(Tail(notes), etiqueta)
       ELSE FilterByTag(Tail(notes), etiqueta)

(***************************************************************************)
(* Intent classification: services/intentClassifier.ts                     *)
(***************************************************************************)
\* .filter(word => word.length > 3)
RECURSIVE FilterLongWords(_)
FilterLongWords(words) ==
  IF words = <<>> THEN <<>>
  ELSE IF Len(Head(words)) > 3
       THEN <<Head(words)>> \o FilterLongWords(Tail(words))
       ELSE FilterLongWords(Tail(words))

Slice(seq, n) == SubSeq(seq, 1, IF n < Len(seq) THEN n ELSE Len(seq))

findSimilarNotes(content, answer, up) ==
  LET keyWords == Slice(FilterLongWords(SplitSpaces(ToLowerCase(content))), 3)
  IN  IF keyWords = <<>> THEN <<>>
      ELSE queryNotionNotes(answer, Join(keyWords, <<" ">>), up)

\* The keys of the object tagCounts as Object.entries lists them: the keys
\* that are array indices (canonical decimal numbers below 2^32 - 1) come
\* first in ascending numeric order, the other keys follow in the order in
\* which they were added.
Digits == <<"0", "1", "2", "3", "4", "5", "6", "7", "8", "9">>

DigitOf(c) == (CHOOSE d \in 1..10 : Digits[d] = c) - 1

\* numeric order of canonical decimal numerals: by length, then digit by
\* digit
IndexLess(a, b) ==
  \/ Len(a) < Len(b)
  \/ /\ Len(a) = Len(b)
     /\ \E i \in 1..Len(a) :
          /\ DigitOf(a[i]) < DigitOf(b[i])
          /\ \A k \in 1..(i - 1) : a[k] = b[k]

\* the largest array index, 2^32 - 2
MaxIndexKey == <<"4", "2", "9", "4", "9", "6", "7", "2", "9", "4">>

IsIndexKey(key) ==
  /\ key # <<>>
  /\ \A i \in 1..Len(key) : \E d \in 1..10 : Digits[d] = key[i]
  /\ Len(key) > 1 => key[1] # "0"
  /\ key = MaxIndexKey \/ IndexLess(key, MaxIndexKey)

\* a new key takes its place in the enumeration order
InsertKey(counts, entry) ==
  IF IsIndexKey(entry.tag)
  THEN LET ahead == {i \in 1..Len(counts) :
                       /\ IsIndexKey(counts[i].tag)
                       /\ IndexLess(counts[i].tag, entry.tag)}
           n == Cardinality(ahead)
       IN  SubSeq(counts, 1, n) \o <<entry>> \o SubSeq(counts, n + 1, Len(counts))
  ELSE Append(counts, entry)

\* tagCounts[tag] = (tagCounts[tag] || 0) + 1
CountTag(counts, tag) ==
  IF \E i \in 1..Len(counts) : counts[i].tag = tag
  THEN [i \in 1..Len(counts) |->
          IF counts[i].tag = tag
          THEN [counts[i] EXCEPT !.count = @ + 1] ELSE counts[i]]
  ELSE InsertKey(counts, [tag |-> tag, count |-> 1])

RECURSIVE CountTags(_, _)
CountTags(counts, tags) ==
  IF tags = <<>> THEN counts
  ELSE CountTags(CountTag(counts, Head(tags)), Tail(tags))

RECURSIVE TagCounts(_, _)
TagCounts(counts, notes) ==
  IF notes = <<>> THEN counts
  ELSE TagCounts(CountTags(counts, Head(notes).etiquetas), Tail(notes))

RECURSIVE FilterFrequent(_)
FilterFrequent(counts) ==
  IF counts = <<>> THEN <<>>
  ELSE IF Head(counts).count >= 2
       THEN <<Head(counts)>> \o FilterFrequent(Tail(counts))
       ELSE FilterFrequent(Tail(counts))

\* .sort(([_, a], [__, b]) => b - a): stable, descending by count
RECURSIVE InsertByCount(_, _)
InsertByCount(x, sorted) ==
  IF sorted = <<>> THEN <<x>>
  ELSE IF Head(sorted).count >= x.count
       THEN <<Head(sorted)>> \o InsertByCount(x, Tail(sorted))
       ELSE <<x>> \o sorted

RECURSIVE SortByCount(_, _)
SortByCount(seq, acc) ==
  IF seq = <<>> THEN acc
  ELSE SortByCount(Tail(seq), InsertByCount(Head(seq), acc))

\* a failure of the similarity lookup is caught and gives no suggestion
suggestTagsFromSimilarContent(content, answer, up) ==
  LET similarNotes == findSimilarNotes(content, answer, up)
      tagCounts == TagCounts(<<>>, Slice(similarNotes, 5))
      top == Slice(SortByCount(FilterFrequent(tagCounts), <<>>), 3)
  IN  [i \in 1..Len(top) |-> top[i].tag]

\* The classification output: the call failed ("error"), its text is not
\* JSON ("unparseable"), it is the JSON value null ("null"), or it is a JSON
\* object with the fields below ("json").
RawOutput(kind, type) ==
  [kind |-> kind, type |-> type, titulo |-> <<>>, contenido |-> <<>>,
   etiquetas |-> Missing, queryType |-> "none", parameter |-> <<>>,
   newTags |-> Missing]

\* the intent classifyIntent returns; response names the reply text of a
\* conversation intent
Intent(raw, response, suggested) ==
  [type |-> raw.type, titulo |-> raw.titulo, contenido |-> raw.contenido,
   etiquetas |-> raw.etiquetas, suggested_tags |-> suggested,
   queryType |-> raw.queryType, parameter |-> raw.parameter,
   newTags |-> raw.newTags, response |-> response]

\* classifyIntent with the two fallback replies exchanged
classifyIntent_swappedFallback(raw, answer, up) ==
  IF raw.kind = "unparseable"
  THEN Intent(RawOutput("json", "conversation"), "apology", <<>>)
  ELSE IF raw.kind \in {"error", "null"}
  THEN Intent(RawOutput("json", "conversation"), "reformulate", <<>>)
  ELSE IF raw.type = "save_note"
  THEN Intent(raw, "none",
              suggestTagsFromSimilarContent(raw.contenido, answer, up))
  ELSE Intent(raw, "llm_reply", <<>>)

classifyIntent(raw, answer, up) ==
  IF raw.kind = "unparseable"
  THEN Intent(RawOutput("json", "conversation"), "reformulate", <<>>)
  ELSE IF raw.kind \in {"error", "null"}
  THEN Intent(RawOutput("json", "conversation"), "apology", <<>>)
  ELSE IF raw.type = "save_note"
  THEN Intent(raw, "none",
              suggestTagsFromSimilarContent(raw.contenido, answer, up))
  ELSE Intent(raw, "llm_reply", <<>>)

\* the wording formatQueryResponse chooses
formatQueryResponse(notes, queryType, parameter) ==
  IF Len(notes) = 0
  THEN IF parameter # <<>> THEN "none_found" ELSE "no_notes"
  ELSE LET relevancia ==
             IF "relevancia" \in DOMAIN notes[1] THEN notes[1].relevancia
             ELSE 0
       IN  IF queryType = "by_tag" THEN "in_tag"
           ELSE IF queryType = "by_keyword"
           THEN IF relevancia >= 10 THEN "exact"
                ELSE IF relevancia >= 3 THEN "related"
                ELSE IF relevancia > 0 THEN "might_interest"
                ELSE "about"
           ELSE IF queryType = "recent" THEN "recent"
           ELSE IF queryType = "count" THEN "total"
           ELSE "found"

(***************************************************************************)
(* Inputs of the dialogue: messages, classification outputs, store answers *)
(***************************************************************************)
MaxBatch == 2

MaxPages == 2

\* the sends of one turn that fail before one is delivered
MaxSendFailures == 3

Texts == {T_cambia, T_noEntiendo, T_hola}

SaveOutputs ==
  {[RawOutput("json", "save_note") EXCEPT
      !.titulo = S_PastaItaliana, !.contenido = S_pastaConTomate,
      !.etiquetas = e] :
     e \in {Missing, Tags(<<>>), Tags(<<S_Recetas>>), Tags(<<S_Ideas>>)}}

QueryOutputs ==
  {[RawOutput("json", "query") EXCEPT !.queryType = "by_tag", !.parameter = p] :
     p \in {<<>>, S_Recetas}}
    \cup {[RawOutput("json", "query") EXCEPT
             !.queryType = "by_keyword", !.parameter = p] :
            p \in {<<>>, S_pasta}}
    \cup {[RawOutput("json", "query") EXCEPT !.queryType = t] :
            t \in {"recent", "count"}}

CorrectionOutputs ==
  {[RawOutput("json", "tag_correction") EXCEPT !.newTags = n] :
     n \in {Missing, Tags(<<S_Ideas>>)}}

RawOutputs ==
  SaveOutputs \cup QueryOutputs \cup CorrectionOutputs
    \cup {RawOutput("json", "conversation"), RawOutput("json", "unclear"),
          RawOutput("json", "reminder"), RawOutput("error", "none"),
          RawOutput("unparseable", "none"), RawOutput("null", "none")}

\* what the store answers to databases.query
StoreAnswers == {<<>>, <<NotePasta, NoteEspagueti>>}

\* textContent.toLowerCase().includes('hola') || ...includes('gracias')
IsGreeting(textContent) ==
  \/ Includes(ToLowerCase(textContent), L_hola)
  \/ Includes(ToLowerCase(textContent), L_gracias)

\* The functions of the text are evaluated once for the inputs above.
TextTable ==
  {[text |-> t, correction |-> parseTagCorrection(t),
    greeting |-> IsGreeting(t)] : t \in Texts}

ParsedCorrection(t) == (CHOOSE e \in TextTable : e.text = t).correction

GreetingText(t) == (CHOOSE e \in TextTable : e.text = t).greeting

\* the notes a query intent finds: the switch on intent.queryType
NotesOfQuery(raw, answer, up) ==
  IF raw.queryType = "by_tag" /\ raw.parameter # <<>>
  THEN queryNotionNotes(FilterByTag(answer, raw.parameter), <<>>, up)
  ELSE IF raw.queryType = "by_keyword" /\ raw.parameter # <<>>
  THEN queryNotionNotes(answer, raw.parameter, up)
  ELSE IF raw.queryType = "recent"
  THEN Slice(queryNotionNotes(answer, <<>>, up), 10)
  ELSE <<>>

ClassificationTable ==
  {[raw |-> raw, answer |-> answer, up |-> up,
    intent |-> classifyIntent(raw, answer, up),
    notes |-> NotesOfQuery(raw, answer, up)] :
     raw \in RawOutputs, answer \in StoreAnswers, up \in BOOLEAN}

TableEntry(env) ==
  CHOOSE e \in ClassificationTable :
    e.raw = env.raw /\ e.answer = env.answer /\ e.up = env.storeUp

ClassifiedIntent(env) == TableEntry(env).intent

FoundNotes(env) == TableEntry(env).notes

(***************************************************************************)
(* Dialogue orchestrator: handlers/messageHandler.ts                       *)
(***************************************************************************)
\* the context of a conversation that has none stored: {}
EmptyContext ==
  [lastNote |-> <<>>, awaitingTagCorrection |-> FALSE, lastQuery |-> <<>>]

\* String.prototype.endsWith('@g.us')
IsGroupJid(remoteJid) ==
  /\ Len(remoteJid) >= Len(L_groupSuffix)
  /\ SubSeq(remoteJid, Len(remoteJid) - Len(L_groupSuffix) + 1,
            Len(remoteJid)) = L_groupSuffix

Call(op, id, tags, ok) == [op |-> op, id |-> id, tags |-> tags, ok |-> ok]

NoId == [js |-> "undefined", v |-> 0]

\* the sendMessage calls of a turn whose first `fails` sends throw: every
\* failed send is followed by the next attempt, a delivered one ends the turn
Deliveries(attempts, fails) ==
  [i \in 1..(IF fails + 1 < Len(attempts) THEN fails + 1 ELSE Len(attempts))
     |-> [text |-> attempts[i], ok |-> i > fails]]

\* the outcome of a turn
Outcome(path, intent, context, pgs, calls, attempts, fails) ==
  [path |-> path, intent |-> intent, context |-> context, pages |-> pgs,
   calls |-> calls, sends |-> Deliveries(attempts, fails),
   escaped |-> attempts # <<>> /\ fails >= Len(attempts)]

\* CorrectionTurn with the context cleared after a failed update too
CorrectionTurn_alwaysClears(context, pgs, tagCorrection, env) ==
  LET lastNote == context.lastNote[1]
      update == updateNoteTags(pgs, lastNote.id, Tags(tagCorrection.newTags),
                               env.storeUp)
  IN  Outcome("correction", "none",
              [context EXCEPT !.awaitingTagCorrection = FALSE,
                              !.lastNote = <<>>],
              update.pages,
              <<Call("updateNoteTags", lastNote.id, tagCorrection.newTags,
                     update.ok)>>,
              <<IF update.ok THEN "tags_updated" ELSE "update_failed",
                "apology", "apology">>,
              env.sendFails)

\* the correction branch of handleIntelligentMessage
CorrectionTurn(context, pgs, tagCorrection, env) ==
  LET lastNote == context.lastNote[1]
      update == updateNoteTags(pgs, lastNote.id, Tags(tagCorrection.newTags),
                               env.storeUp)
      cleared == [context EXCEPT !.awaitingTagCorrection = FALSE,
                                 !.lastNote = <<>>]
  IN  Outcome("correction", "none",
              IF update.ok /\ env.sendFails = 0 THEN cleared ELSE context,
              update.pages,
              <<Call("updateNoteTags", lastNote.id, tagCorrection.newTags,
                     update.ok)>>,
              <<IF update.ok THEN "tags_updated" ELSE "update_failed",
                "apology", "apology">>,
              env.sendFails)

\* SaveNoteTurn that raises the flag and stores no note
SaveNoteTurn_flagOnly(context, pgs, intent, env) ==
  LET created == createNotionNote(pgs, intent, env.storeUp)
      pageId == IF created.ok THEN JsTrue ELSE NoId
      call == <<Call("createNotionNote", pageId, intent.etiquetas.tags,
                     created.ok)>>
  IN  IF ~created.ok
      THEN [context |-> context, pages |-> pgs, calls |-> call,
            response |-> "save_failed"]
      ELSE [context |-> [context EXCEPT !.awaitingTagCorrection = TRUE],
            pages |-> created.pages, calls |-> call,
            response |-> "saved_tags_ok"]

SaveNoteTurn(context, pgs, intent, env) ==
  LET created == createNotionNote(pgs, intent, env.storeUp)
      pageId == IF created.ok THEN JsTrue ELSE NoId
      etiquetas == intent.etiquetas.tags
      uniqueSuggested ==
        {i \in 1..Len(intent.suggested_tags) :
           ~Member(etiquetas, intent.suggested_tags[i])}
      pending == [context EXCEPT
                    !.awaitingTagCorrection = TRUE,
                    !.lastNote = <<[id |-> pageId, titulo |-> intent.titulo,
                                    etiquetas |-> etiquetas]>>]
      call == <<Call("createNotionNote", pageId, etiquetas, created.ok)>>
  IN  IF ~created.ok
      THEN [context |-> context, pages |-> pgs, calls |-> call,
            response |-> "save_failed"]
      ELSE IF Len(intent.suggested_tags) > 0
      THEN IF uniqueSuggested # {}
           THEN [context |-> pending, pages |-> created.pages, calls |-> call,
                 response |-> "saved_with_suggestions"]
           ELSE [context |-> context, pages |-> created.pages, calls |-> call,
                 response |-> "saved"]
      ELSE [context |-> pending, pages |-> created.pages, calls |-> call,
            response |-> "saved_tags_ok"]

\* QueryTurn that forgets the pending note
QueryTurn_forgetsNote(context, pgs, intent, env) ==
  [context |-> [EmptyContext EXCEPT !.lastQuery = intent.parameter],
   pages |-> pgs,
   calls |->
     IF intent.queryType = "count"
     THEN <<Call("getNotesCount", NoId, <<>>, env.storeUp)>>
     ELSE <<Call("queryNotionNotes", NoId, <<>>, env.storeUp)>>,
   response |->
     IF intent.queryType = "count" THEN "count"
     ELSE formatQueryResponse(FoundNotes(env), intent.queryType,
                              intent.parameter)]

QueryTurn(context, pgs, intent, env) ==
  LET queried ==
        \/ intent.queryType \in {"by_tag", "by_keyword"} /\ intent.parameter # <<>>
        \/ intent.queryType = "recent"
      notes == FoundNotes(env)
  IN  [context |->
         IF intent.queryType = "by_keyword" /\ intent.parameter # <<>>
         THEN [context EXCEPT !.lastQuery = intent.parameter] ELSE context,
       pages |-> pgs,
       calls |->
         IF intent.queryType = "count"
         THEN <<Call("getNotesCount", NoId, <<>>, env.storeUp)>>
         ELSE IF queried
         THEN <<Call("queryNotionNotes", NoId, <<>>, env.storeUp)>>
         ELSE <<>>,
       response |->
         IF intent.queryType = "count" THEN "count"
         ELSE formatQueryResponse(notes, intent.queryType, intent.parameter)]

\* ConversationTurn with a greeting that ends the wait but keeps lastNote
ConversationTurn_keepsNote(context, pgs, textContent, intent) ==
  [context |-> IF GreetingText(textContent)
               THEN [context EXCEPT !.awaitingTagCorrection = FALSE,
                                    !.lastQuery = <<>>]
               ELSE context,
   pages |-> pgs, calls |-> <<>>, response |-> intent.response]

ConversationTurn(context, pgs, textContent, intent) ==
  [context |-> IF GreetingText(textContent) THEN EmptyContext ELSE context,
   pages |-> pgs, calls |-> <<>>, response |-> intent.response]

TagCorrectionTurn(context, pgs, intent, env) ==
  IF context.lastNote # <<>> /\ context.lastNote[1].id.js # "undefined"
  THEN LET lastNote == context.lastNote[1]
           update == updateNoteTags(pgs, lastNote.id, intent.newTags,
                                    env.storeUp)
       IN  [context |->
              IF update.ok
              THEN [context EXCEPT !.awaitingTagCorrection = FALSE,
                                   !.lastNote = <<>>]
              ELSE context,
            pages |-> update.pages,
            calls |-> <<Call("updateNoteTags", lastNote.id,
                             intent.newTags.tags, update.ok)>>,
            response |-> IF update.ok THEN "tags_changed"
                         ELSE "update_failed"]
  ELSE [context |-> context, pages |-> pgs, calls |-> <<>>,
        response |-> "no_context"]

\* the switch on intent.type of handleIntelligentMessage
IntentSwitch(context, pgs, textContent, intent, env) ==
  IF intent.type = "save_note" THEN SaveNoteTurn(context, pgs, intent, env)
  ELSE IF intent.type = "query" THEN QueryTurn(context, pgs, intent, env)
  ELSE IF intent.type = "conversation"
  THEN ConversationTurn(context, pgs, textContent, intent)
  ELSE IF intent.type = "unclear"
  THEN [context |-> context, pages |-> pgs, calls |-> <<>>,
        response |-> "clarification"]
  ELSE IF intent.type = "tag_correction"
  THEN TagCorrectionTurn(context, pgs, intent, env)
  ELSE [context |-> context, pages |-> pgs, calls |-> <<>>,
        response |-> "not_sure"]

\* after the switch: conversationContext.set and the reply, with the
\* fallback reply of the catch block behind it
SetAndReply(intentType, branch, sendFails) ==
  Outcome("classified", intentType, branch.context, branch.pages,
          branch.calls, <<branch.response, "apology", "apology">>, sendFails)

\* the turn for a classified intent
TurnOfIntent(context, pgs, textContent, intent, env) ==
  SetAndReply(intent.type,
              IntentSwitch(context, pgs, textContent, intent, env),
              env.sendFails)

\* the classified branch of handleIntelligentMessage
ClassifiedTurn(context, pgs, textContent, env) ==
  TurnOfIntent(context, pgs, textContent, ClassifiedIntent(env), env)

handleIntelligentMessage(context, pgs, textContent, env) ==
  LET tagCorrection == ParsedCorrection(textContent)
  IN  IF /\ context.awaitingTagCorrection
         /\ context.lastNote # <<>>
         /\ tagCorrection.matched
      THEN CorrectionTurn(context, pgs, tagCorrection, env)
      ELSE ClassifiedTurn(context, pgs, textContent, env)

\* handleMessage that answers a group message like a direct one
handleMessage_answersGroups(context, pgs, ai, message, env) ==
  IF message.remoteJid = <<>>
  THEN Outcome("no_jid", "none", context, pgs, <<>>, <<>>, 0)
  ELSE IF IsGroupJid(message.remoteJid)
  THEN Outcome("group", "none", context, pgs, <<>>,
               <<"ai_disabled", "apology">>, 0)
  ELSE IF message.text = <<>>
  THEN Outcome("no_text", "none", context, pgs, <<>>,
               <<"caption_please", "apology">>, env.sendFails)
  ELSE IF ai
  THEN handleIntelligentMessage(context, pgs, message.text, env)
  ELSE Outcome("ai_disabled", "none", context, pgs, <<>>,
               <<"ai_disabled", "apology">>, env.sendFails)

\* handleMessage for one message of the batch; context is
\* conversationContext.get(remoteJid) || {}
handleMessage(context, pgs, ai, message, env) ==
  IF message.remoteJid = <<>>
  THEN Outcome("no_jid", "none", context, pgs, <<>>, <<>>, 0)
  ELSE IF IsGroupJid(message.remoteJid)
  THEN Outcome("group", "none", context, pgs, <<>>, <<>>, 0)
  ELSE IF message.text = <<>>
  THEN Outcome("no_text", "none", context, pgs, <<>>,
               <<"caption_please", "apology">>, env.sendFails)
  ELSE IF ai
  THEN handleIntelligentMessage(context, pgs, message.text, env)
  ELSE Outcome("ai_disabled", "none", context, pgs, <<>>,
               <<"ai_disabled", "apology">>, env.sendFails)

Env(raw, answer, storeUp, sendFails) ==
  [raw |-> raw, answer |-> answer, storeUp |-> storeUp,
   sendFails |-> sendFails]

NoOutput == RawOutput("error", "none")

\* what the record of a turn keeps of its environment: the title and the
\* presence of tags in the classifier's output, and whether the store was up
EnvSeen(env) ==
  [raw |-> [titulo |-> env.raw.titulo,
            etiquetas |-> [present |-> env.raw.etiquetas.present]],
   storeUp |-> env.storeUp]

\* a search by tag or by keyword without a parameter makes no store call
SkipsSearch(raw) ==
  raw.queryType \in {"by_tag", "by_keyword"} /\ raw.parameter = <<>>

UsesStore(raw) ==
  /\ raw.kind = "json"
  /\ \/ raw.type \in {"save_note", "tag_correction"}
     \/ raw.type = "query" /\ ~SkipsSearch(raw)

UsesAnswer(raw) ==
  /\ raw.kind = "json"
  /\ \/ raw.type = "save_note"
     \/ raw.type = "query" /\ raw.queryType # "count" /\ ~SkipsSearch(raw)

\* The collaborators' behaviour during one turn: the classification output,
\* the store's answer and availability, the number of failing sends.  A
\* component the turn does not consult is fixed, and so is the answer of a
\* store that is down.  Failing sends are drawn
\* for every reply that needs no classification and, among the classified
\* turns, for the replies to the outputs of SendFailureOutputs.
SendEnvs == {Env(NoOutput, <<>>, TRUE, f) : f \in 0..MaxSendFailures}

CorrectionEnvs ==
  {Env(NoOutput, <<>>, up, f) : up \in BOOLEAN, f \in 0..MaxSendFailures}

SendFailureOutputs ==
  {RawOutput("json", "conversation"),
   [RawOutput("json", "save_note") EXCEPT
      !.titulo = S_PastaItaliana, !.contenido = S_pastaConTomate,
      !.etiquetas = Tags(<<S_Ideas>>)]}

ClassifiedEnvs ==
  {env \in [raw : RawOutputs, answer : StoreAnswers, storeUp : BOOLEAN,
            sendFails : {0}] :
     /\ UsesStore(env.raw) \/ env.storeUp
     /\ UsesAnswer(env.raw) \/ env.answer = <<>>
     /\ env.storeUp \/ env.answer = <<>>}
    \cup {Env(raw, <<>>, TRUE, f) :
            raw \in SendFailureOutputs, f \in 1..MaxSendFailures}

Envs(context, ai, message) ==
  IF message.remoteJid = <<>> \/ IsGroupJid(message.remoteJid)
  THEN {Env(NoOutput, <<>>, TRUE, 0)}
  ELSE IF message.text = <<>> \/ ~ai THEN SendEnvs
  ELSE IF /\ context.awaitingTagCorrection
          /\ context.lastNote # <<>>
          /\ ParsedCorrection(message.text).matched
  THEN CorrectionEnvs
  ELSE ClassifiedEnvs

(***************************************************************************)
(* The dialogue: one 'messages.upsert' callback at a time                  *)
(***************************************************************************)
NoTurn ==
  [path |-> "none", remoteJid |-> <<>>, text |-> <<>>,
   before |-> EmptyContext, intent |-> "none", rawKind |-> "none",
   calls |-> <<>>, sends |-> <<>>, escaped |-> FALSE,
   env |-> EnvSeen(Env(NoOutput, <<>>, TRUE, 0))]

Message(remoteJid, text) == [remoteJid |-> remoteJid, text |-> text]

\* the conversations of the direct messages that arrive
Conversations == DOMAIN conversationContext

\* the messages of a batch that have content and are not the bot's own
Messages ==
  {Message(<<>>, T_hola), Message(U_group, T_hola)}
    \cup {Message(j, t) : j \in Conversations, t \in Texts \cup {<<>>}}

ContextOf(remoteJid) ==
  IF remoteJid \in Conversations THEN conversationContext[remoteJid]
  ELSE EmptyContext

\* the 'messages.upsert' callbacks that can be running at one time
MaxCallbacks == 2

Jids == {U_user1, U_user2}

\* a context object is held by the Map or by a running turn, so there are
\* never more of them than conversations and callbacks together
ObjectSlots == 1..(MaxCallbacks + Cardinality(Jids))

\* a place that holds no object
NoObject == [remoteJid |-> <<>>, value |-> EmptyContext, written |-> FALSE]

\* no callback is running and the Map is empty
NoInterleaving ==
  /\ contextRefs = [j \in Jids |-> 0]
  /\ objects = [ref \in ObjectSlots |-> NoObject]
  /\ callbacks = EmptyBag

Init ==
  /\ conversationContext = [j \in {U_user1} |-> EmptyContext]
  /\ pages = <<>>
  /\ aiEnabled \in BOOLEAN
  /\ batchLeft = 0
  /\ turn = NoTurn
  /\ NoInterleaving
  /\ candidates = <<>>
  /\ query = <<>>
  /\ apiUp = TRUE
  /\ results = <<>>
  /\ searchLog = "none"
  /\ phase = "idle"
  /\ suggestedTags = <<>>
  /\ parseInput = <<>>
  /\ parsed = [matched |-> FALSE, newTags |-> <<>>]
  /\ queryReply = "none"

\* the 'messages.upsert' callback starts: a batch that is not of type
\* 'notify' is dropped, a 'notify' batch is iterated message by message
MessagesUpsert ==
  /\ batchLeft = 0
  /\ \E type \in {"notify", "append"}, n \in 1..MaxBatch :
       /\ batchLeft' = IF type = "notify" THEN n ELSE 0
       /\ turn' = [NoTurn EXCEPT !.path = IF type = "notify" THEN "upsert"
                                          ELSE "not_notify"]
  /\ UNCHANGED <<conversationContext, pages, aiEnabled, searchVars,
                 functionVars, interleavingVars>>

\* the loop skips a message without content and a message of the bot itself
SkipMessage ==
  /\ batchLeft > 0
  /\ \E reason \in {"no_content", "from_me"} :
       turn' = [NoTurn EXCEPT !.path = reason]
  /\ batchLeft' = batchLeft - 1
  /\ UNCHANGED <<conversationContext, pages, aiEnabled, searchVars,
                 functionVars, interleavingVars>>

\* await handleMessage(sock, message) for the next message of the batch; an
\* exception that escapes handleMessage ends the callback
HandleMessage ==
  /\ batchLeft > 0
  /\ \E message \in Messages :
       LET context == ContextOf(message.remoteJid) IN
       \E env \in Envs(context, aiEnabled, message) :
       \E out \in {handleMessage(context, pages, aiEnabled, message, env)} :
         /\ Len(out.pages) <= MaxPages
         /\ conversationContext' =
              IF out.path \in {"correction", "classified"}
              THEN [conversationContext EXCEPT
                      ![message.remoteJid] = out.context]
              ELSE conversationContext
         /\ pages' = out.pages
         /\ turn' = [path |-> out.path, remoteJid |-> message.remoteJid,
                     text |-> message.text, before |-> context,
                     intent |-> out.intent,
                     rawKind |-> IF out.path = "classified" THEN env.raw.kind
                                 ELSE "none",
                     calls |-> out.calls, sends |-> out.sends,
                     escaped |-> out.escaped, env |-> EnvSeen(env)]
         /\ batchLeft' = IF out.escaped THEN 0 ELSE batchLeft - 1
  /\ UNCHANGED <<aiEnabled, searchVars, functionVars, interleavingVars>>

Next == MessagesUpsert \/ SkipMessage \/ HandleMessage

Spec == Init /\ [][Next]_vars

(***************************************************************************)
(* Properties of the dialogue                                              *)
(***************************************************************************)
\* the last step was a turn of handleIntelligentMessage
Handled == turn.path \in {"correction", "classified"}

ContextNow == conversationContext[turn.remoteJid]

\* the reply the turn tried to send first
FirstReply == turn.sends[1].text

FailedCall(op) ==
  \E i \in 1..Len(turn.calls) : turn.calls[i].op = op /\ ~turn.calls[i].ok

CalledUpdate ==
  \E i \in 1..Len(turn.calls) : turn.calls[i].op = "updateNoteTags"

\* C1 as stated: a matched correction in AwaitingCorrection calls
\* updateNoteTags for lastNote and ends in Idle whether the update succeeded
\* or failed.
C1_CorrectionEndsIdle ==
  turn.path = "correction" =>
    /\ turn.calls = <<Call("updateNoteTags", turn.before.lastNote[1].id,
                           ParsedCorrection(turn.text).newTags,
                           turn.calls[1].ok)>>
    /\ ~ContextNow.awaitingTagCorrection
    /\ ContextNow.lastNote = <<>>

\* C1 amended: a matched correction in AwaitingCorrection calls
\* updateNoteTags for lastNote; the conversation goes to Idle only when the
\* update reported success, and a failed update leaves the context as it was
\* (still AwaitingCorrection with the same lastNote) with the failure reply.
C1_FailedCorrectionKeepsState ==
  turn.path = "correction" =>
    /\ turn.before.awaitingTagCorrection /\ turn.before.lastNote # <<>>
    /\ turn.calls = <<Call("updateNoteTags", turn.before.lastNote[1].id,
                           ParsedCorrection(turn.text).newTags,
                           turn.calls[1].ok)>>
    /\ ~turn.calls[1].ok =>
         /\ ContextNow = turn.before
         /\ FirstReply = "update_failed"
    /\ ContextNow # turn.before =>
         /\ turn.calls[1].ok
         /\ ~ContextNow.awaitingTagCorrection
         /\ ContextNow.lastNote = <<>>

C1_Witness ==
  /\ turn.path = "correction"
  /\ ~turn.calls[1].ok
  /\ turn.sends[1].ok
  /\ ContextNow.awaitingTagCorrection
  /\ ContextNow.lastNote # <<>>

C3_NoExceptionEscapes == ~turn.escaped

\* C4: a SaveNote turn in Idle whose create succeeded ends in
\* AwaitingCorrection with lastNote holding the saved title and tags, for
\* every combination of tags and suggested tags.
C4_SaveEntersAwaiting ==
  (/\ turn.path = "classified"
   /\ turn.intent = "save_note"
   /\ ~turn.before.awaitingTagCorrection
   /\ turn.calls[1].ok) =>
    /\ ContextNow.awaitingTagCorrection
    /\ Len(ContextNow.lastNote) = 1
    /\ ContextNow.lastNote[1].titulo = S_PastaItaliana
    /\ ContextNow.lastNote[1].etiquetas = turn.calls[1].tags

\* C5: in AwaitingCorrection a message that is no correction, contains
\* 'hola' or 'gracias' and is classified as conversation resets the context
\* to Idle; a correction-shaped message that finds no pending note makes no
\* updateNoteTags call.
C5_GreetingResets ==
  /\ (/\ turn.path = "classified"
      /\ turn.before.awaitingTagCorrection
      /\ turn.before.lastNote # <<>>
      /\ ~ParsedCorrection(turn.text).matched
      /\ GreetingText(turn.text)
      /\ turn.intent = "conversation") =>
       /\ ~ContextNow.awaitingTagCorrection
       /\ ContextNow.lastNote = <<>>
  /\ (/\ Handled
      /\ turn.before.lastNote = <<>>
      /\ ParsedCorrection(turn.text).matched) =>
       ~CalledUpdate

C5_Witness ==
  /\ turn.path = "classified"
  /\ turn.before.awaitingTagCorrection
  /\ turn.before.lastNote # <<>>
  /\ GreetingText(turn.text)
  /\ turn.intent = "conversation"
  /\ turn.rawKind = "json"
  /\ ContextNow = EmptyContext

(***************************************************************************)
(* The search on its own: one call of queryNotionNotes                     *)
(***************************************************************************)
InitSearch ==
  /\ candidates \in CandidateSeqs
  /\ query \in Queries
  /\ apiUp \in BOOLEAN
  /\ results = <<>>
  /\ searchLog = "none"
  /\ phase = "input"
  /\ conversationContext = [j \in {U_user1} |-> EmptyContext]
  /\ pages = <<>>
  /\ aiEnabled = TRUE
  /\ batchLeft = 0
  /\ turn = NoTurn
  /\ NoInterleaving
  /\ suggestedTags = <<>>
  /\ parseInput = <<>>
  /\ parsed = [matched |-> FALSE, newTags |-> <<>>]
  /\ queryReply = "none"

\* one call of queryNotionNotes(query)
QueryNotes ==
  /\ phase = "input"
  /\ results' = queryNotionNotes(candidates, query, apiUp)
  /\ searchLog' = IF apiUp /\ query # <<>>
                  THEN SearchLogMessage(candidates, query) ELSE "none"
  /\ phase' = "done"
  /\ UNCHANGED <<candidates, query, apiUp, dialogueVars, functionVars,
                 interleavingVars>>

\* response = formatQueryResponse(notes, 'by_keyword', parameter) with the
\* list the search returned
FormatQueryResponse ==
  /\ phase = "done"
  /\ queryReply' = formatQueryResponse(results, "by_keyword", query)
  /\ phase' = "replied"
  /\ UNCHANGED <<candidates, query, apiUp, results, searchLog, suggestedTags,
                 parseInput, parsed, dialogueVars, interleavingVars>>

NextSearch == QueryNotes \/ FormatQueryResponse

SpecSearch == InitSearch /\ [][NextSearch]_vars

(***************************************************************************)
(* Properties of the search                                                *)
(***************************************************************************)
\* the search ran on the pages of the store
Searched == phase = "done" /\ apiUp /\ query # <<>>

PositionOf(id) == CHOOSE i \in 1..Len(candidates) : candidates[i].id = id

ResultIds == {results[i].id : i \in 1..Len(results)}

ExactPositive ==
  {n \in {candidates[i] : i \in 1..Len(candidates)} :
     ExactScore(n, QueryLower(query), QueryWords(query)).relevancia > 0}

SynonymPositive ==
  {n \in {candidates[i] : i \in 1..Len(candidates)} :
     SynonymScore(n, QueryWords(query)).relevancia > 0}

FuzzyPositive ==
  {n \in {candidates[i] : i \in 1..Len(candidates)} :
     FuzzyScore(n, QueryWords(query)).relevancia > 0}

ExactKinds ==
  {"TituloExacto", "ContenidoExacto", "EtiquetaExacta", "TituloPalabra",
   "ContenidoPalabra", "EtiquetaPalabra"}

SynonymKinds ==
  {"TituloRelacionado", "ContenidoRelacionado", "EtiquetaRelacionada"}

ReasonKinds(r) == {r.coincidencias[i].kind : i \in 1..Len(r.coincidencias)}

\* the returned list is exactly what tier Pos with kinds K yields
ReturnedFrom(Pos, K) ==
  /\ ResultIds = {n.id : n \in Pos}
  /\ Len(results) = Cardinality(Pos)
  /\ \A i \in 1..Len(results) : ReasonKinds(results[i]) \subseteq K

\* C6: whenever a candidate has positive relevance in the exact tier the
\* returned list is the exact tier's and the other tiers contribute nothing;
\* the synonym tier's list is returned only when the exact tier is empty and
\* the fuzzy tier's only when both earlier tiers are empty.
C6_TierOrdering ==
  Searched =>
    /\ ExactPositive # {} =>
         /\ ReturnedFrom(ExactPositive, ExactKinds)
         /\ searchLog = "Found exact matches"
    /\ (ExactPositive = {} /\ SynonymPositive # {}) =>
         /\ ReturnedFrom(SynonymPositive, SynonymKinds)
         /\ searchLog = "Found synonym matches"
    /\ (ExactPositive = {} /\ SynonymPositive = {}) =>
         /\ ReturnedFrom(FuzzyPositive, {"Parcial"})
         /\ searchLog = "Search completed"

\* an exact match exists next to a page only the synonym tier would return
C6_Witness ==
  /\ Searched
  /\ ExactPositive # {}
  /\ SynonymPositive \ ExactPositive # {}
  /\ ResultIds = {n.id : n \in ExactPositive}

\* C7: a query that is empty, blank or made only of stop words and tokens of
\* length <= 2 returns the empty sequence for every candidate set.
C7_EmptyQueryEmptyResult ==
  (phase = "done" /\ QueryWords(query) = <<>>) => results = <<>>

\* C8 as stated: query 'espagueti' against the note 'Pasta italiana' /
\* 'pasta con tomate' is answered by the synonym tier with relevance 5 and
\* the reason 'pasta -> espagueti'.
C8_EspaguetiFindsPasta ==
  (Searched /\ query = S_espagueti /\ candidates = <<NotePasta>>) =>
    /\ Len(results) = 1
    /\ results[1].relevancia = 5
    /\ \E i \in 1..Len(results[1].coincidencias) :
         /\ results[1].coincidencias[i].kind \in SynonymKinds
         /\ results[1].coincidencias[i].word = S_pasta
         /\ results[1].coincidencias[i].synonym = S_espagueti

\* C8 amended: the table is looked up by the query token.  Query 'pasta'
\* against a note titled 'Espagueti rojo' is answered by the synonym tier
\* with relevance 5 and the reason 'pasta -> espagueti'; every synonym reason
\* names a query token and one of the table's related terms of that token;
\* query 'espagueti' against 'Pasta italiana' returns nothing.
C8_SynonymDirection ==
  Searched =>
    /\ (query = S_pasta /\ candidates = <<NoteEspagueti>>) =>
         /\ ExactPositive = {}
         /\ Len(results) = 1
         /\ results[1].id = NoteEspagueti.id
         /\ results[1].relevancia = 5
         /\ results[1].coincidencias =
              <<[kind |-> "TituloRelacionado", word |-> S_pasta,
                 synonym |-> S_espagueti]>>
    /\ \A i \in 1..Len(results) :
         \A k \in 1..Len(results[i].coincidencias) :
           LET c == results[i].coincidencias[k]
           IN  c.kind \in SynonymKinds =>
                 /\ Member(QueryWords(query), c.word)
                 /\ \E s \in 1..Len(synonyms) :
                      /\ synonyms[s].word = c.word
                      /\ Member(synonyms[s].related, c.synonym)
    /\ (query = S_espagueti /\ candidates = <<NotePasta>>) => results = <<>>

C8_Witness ==
  /\ Searched
  /\ query = S_pasta
  /\ candidates = <<NoteEspagueti>>
  /\ Len(results) = 1
  /\ results[1].relevancia = 5

\* C9: relevance is non-increasing along every list the search returns.
C9_MonotonicRelevance ==
  Searched =>
    \A i \in 1..(Len(results) - 1) :
      results[i].relevancia >= results[i + 1].relevancia

\* two results of different relevance whose candidate order was ascending
C9_Witness ==
  /\ Searched
  /\ \E i \in 1..(Len(results) - 1) :
       /\ results[i].relevancia > results[i + 1].relevancia
       /\ PositionOf(results[i].id) > PositionOf(results[i + 1].id)

\* C10: two returned notes of equal relevance keep the relative order they
\* have in the candidate sequence.
C10_StableOrder ==
  Searched =>
    \A i, j \in 1..Len(results) :
      (i < j /\ results[i].relevancia = results[j].relevancia) =>
        PositionOf(results[i].id) < PositionOf(results[j].id)

\* a tie between two returned notes
C10_Witness ==
  /\ Searched
  /\ \E i \in 1..(Len(results) - 1) :
       results[i].relevancia = results[i + 1].relevancia

\* the points the exact tier adds with a reason of each kind
ExactPoints(kind) ==
  CASE kind = "TituloExacto" -> 30
    [] kind = "ContenidoExacto" -> 25
    [] kind = "EtiquetaExacta" -> 20
    [] kind = "TituloPalabra" -> 15
    [] kind = "ContenidoPalabra" -> 12
    [] kind = "EtiquetaPalabra" -> 10
    [] OTHER -> 0

RECURSIVE SumPoints(_)
SumPoints(coincidencias) ==
  IF coincidencias = <<>> THEN 0
  ELSE ExactPoints(Head(coincidencias).kind) + SumPoints(Tail(coincidencias))

\* the text of a result that a reason of the given kind was matched in
FieldOf(r, kind) ==
  IF kind \in {"TituloExacto", "TituloPalabra"} THEN ToLowerCase(r.titulo)
  ELSE IF kind \in {"ContenidoExacto", "ContenidoPalabra"}
  THEN ToLowerCase(r.contenido)
  ELSE ToLowerCase(Join(r.etiquetas, <<" ">>))

HasReason(r, kind, word) ==
  \E k \in 1..Len(r.coincidencias) :
    r.coincidencias[k].kind = kind /\ r.coincidencias[k].word = word

\* C11: in a list of the exact tier a note's relevance is 30 for the title
\* containing the whole normalised query, plus 25 for the body, plus 20 for
\* the joined tags; the per-word points (15 title, 12 body, 10 tags, summed
\* over the query words) count only when that phrase score is 0; there is
\* one reason per contributing match.  Query 'pasta' over the single note
\* 'Pasta italiana' gives one entry with the reason 'Titulo contiene
\* exactamente'.
C11_ExactScoring ==
  (Searched /\ ExactPositive # {}) =>
    /\ \A i \in 1..Len(results) :
         LET r == results[i]
             q == QueryLower(query)
             t == Includes(ToLowerCase(r.titulo), q)
             c == Includes(ToLowerCase(r.contenido), q)
             e == Includes(ToLowerCase(Join(r.etiquetas, <<" ">>)), q)
             phrase == (IF t THEN 30 ELSE 0) + (IF c THEN 25 ELSE 0)
                         + (IF e THEN 20 ELSE 0)
             words == QueryWords(query)
         IN  /\ r.relevancia = SumPoints(r.coincidencias)
             /\ phrase > 0 =>
                  /\ r.relevancia = phrase
                  /\ Len(r.coincidencias) =
                       Cardinality({x \in {<<1, t>>, <<2, c>>, <<3, e>>} : x[2]})
                  /\ t <=> HasReason(r, "TituloExacto", q)
                  /\ c <=> HasReason(r, "ContenidoExacto", q)
                  /\ e <=> HasReason(r, "EtiquetaExacta", q)
             /\ phrase = 0 =>
                  /\ ReasonKinds(r) \subseteq
                       {"TituloPalabra", "ContenidoPalabra", "EtiquetaPalabra"}
                  /\ \A w \in 1..Len(words) :
                       \A kind \in {"TituloPalabra", "ContenidoPalabra",
                                     "EtiquetaPalabra"} :
                         Includes(FieldOf(r, kind), words[w])
                           <=> HasReason(r, kind, words[w])
                  /\ Len(r.coincidencias) =
                       Cardinality(
                         {x \in (1..Len(words))
                                  \X {"TituloPalabra", "ContenidoPalabra",
                                      "EtiquetaPalabra"} :
                            Includes(FieldOf(r, x[2]), words[x[1]])})
    /\ (query = S_pasta /\ candidates = <<NotePasta>>) =>
         /\ Len(results) = 1
         /\ HasReason(results[1], "TituloExacto", S_pasta)

\* a note scored word by word: 'pasta tomate' is no phrase of 'Pasta
\* italiana' / 'pasta con tomate', its words give 15 + 12 + 12
C11_Witness ==
  /\ Searched
  /\ query = S_pastaTomate
  /\ \E i \in 1..Len(results) :
       /\ results[i].id = NotePasta.id
       /\ results[i].relevancia = 39
       /\ Len(results[i].coincidencias) = 3

\* the five variants of IntentResult
IntentTypes ==
  {"save_note", "query", "conversation", "unclear", "tag_correction"}

\* C12: whatever the classification call gives, classifyIntent returns one
\* of the five intent variants; an output that is not of the Intent shape
\* comes back as a conversation intent with a generic reply.
C12_AlwaysAnIntent ==
  turn.path = "classified" =>
    /\ turn.intent \in IntentTypes
    /\ turn.rawKind # "json" =>
         turn.intent = "conversation" /\ FirstReply \in {"apology", "reformulate"}

SavedReplies == {"saved", "saved_with_suggestions", "saved_tags_ok"}

\* C13: a save_note classification without the tags field is saved with an
\* empty tag sequence: with the store available the create call succeeds
\* and the reply is the confirmation of the saved note.
C13_MissingTagsStillSaves ==
  (/\ turn.path = "classified"
   /\ turn.intent = "save_note"
   /\ ~turn.env.raw.etiquetas.present
   /\ turn.env.storeUp) =>
    /\ turn.calls = <<Call("createNotionNote", JsTrue, <<>>, TRUE)>>
    /\ FirstReply \in SavedReplies

(***************************************************************************)
(* Tag suggestion as a function of the store's answer                      *)
(***************************************************************************)
\* the similar notes suggestTagsFromSimilarContent looks at, at most
MaxSimilar == 6

S_2024 == <<"2", "0", "2", "4">>

\* the tag lists of the store's pages
TagMenus == {<<S_Recetas>>, <<S_Ideas, S_Recetas>>, <<S_Cena>>,
             <<S_Cena, S_2024>>}

\* pages with the text of the note being saved and tag lists of TagMenus,
\* at most `longest` of them
SimilarSeqs(longest) ==
  UNION {{[i \in 1..n |->
             [id |-> PageId(i), titulo |-> S_PastaItaliana,
              contenido |-> S_pastaConTomate, etiquetas |-> menus[i]]] :
            menus \in [1..n -> TagMenus]} : n \in 0..longest}

InitSuggest ==
  /\ candidates \in SimilarSeqs(MaxSimilar)
  /\ query = S_pastaConTomate
  /\ apiUp = TRUE
  /\ results = <<>>
  /\ searchLog = "none"
  /\ phase = "input"
  /\ suggestedTags = <<>>
  /\ parseInput = <<>>
  /\ parsed = [matched |-> FALSE, newTags |-> <<>>]
  /\ queryReply = "none"
  /\ conversationContext = [j \in {U_user1} |-> EmptyContext]
  /\ pages = <<>>
  /\ aiEnabled = TRUE
  /\ batchLeft = 0
  /\ turn = NoTurn
  /\ NoInterleaving

\* one call of suggestTagsFromSimilarContent(content) and, for reference,
\* the list its findSimilarNotes call returned
SuggestTags ==
  /\ phase = "input"
  /\ suggestedTags' = suggestTagsFromSimilarContent(query, candidates, apiUp)
  /\ results' = findSimilarNotes(query, candidates, apiUp)
  /\ phase' = "done"
  /\ UNCHANGED <<candidates, query, apiUp, searchLog, parseInput, parsed,
                 queryReply,
                 dialogueVars, interleavingVars>>

NextSuggest == SuggestTags

SpecSuggest == InitSuggest /\ [][NextSuggest]_vars

(***************************************************************************)
(* Properties of the tag suggestion                                        *)
(***************************************************************************)
\* the similar notes that are tallied: similarNotes.slice(0, 5)
Considered == Slice(results, 5)

\* in how many of the tallied notes a tag appears
Frequency(tag) ==
  Cardinality({i \in 1..Len(Considered) : Member(Considered[i].etiquetas, tag)})

SeenTags ==
  UNION {{Considered[i].etiquetas[k] : k \in 1..Len(Considered[i].etiquetas)} :
           i \in 1..Len(Considered)}

\* where a tag is met first: the note, then the place in its tag list
FirstSeen(tag) ==
  LET i == Min({n \in 1..Len(Considered) : Member(Considered[n].etiquetas, tag)})
      k == Min({p \in 1..Len(Considered[i].etiquetas) :
                  Considered[i].etiquetas[p] = tag})
  IN  i * 100 + k

\* tag a is listed before tag b: more frequent, or as frequent and met first
ListedBefore(a, b) ==
  \/ Frequency(a) > Frequency(b)
  \/ Frequency(a) = Frequency(b) /\ FirstSeen(a) < FirstSeen(b)

FrequentTags == {t \in SeenTags : Frequency(t) >= 2}

\* C14: over the first 5 similar notes the suggestion holds the tags that
\* appear in at least 2 of them, at most 3, by descending frequency and,
\* for equal frequency, in first-seen order; the frequencies
\* {Recetas: 3, Ideas: 2, Cena: 1} give <<Recetas, Ideas>>.
C14_SuggestedTags ==
  phase = "done" =>
    /\ Len(suggestedTags) = Min({3, Cardinality(FrequentTags)})
    /\ \A i \in 1..Len(suggestedTags) : suggestedTags[i] \in FrequentTags
    /\ \A i, j \in 1..Len(suggestedTags) :
         i < j => ListedBefore(suggestedTags[i], suggestedTags[j])
    /\ \A t \in FrequentTags :
         (\A i \in 1..Len(suggestedTags) : suggestedTags[i] # t) =>
           \A i \in 1..Len(suggestedTags) : ListedBefore(suggestedTags[i], t)
    /\ (/\ Frequency(S_Recetas) = 3 /\ Frequency(S_Ideas) = 2
        /\ Frequency(S_Cena) = 1 /\ Frequency(S_2024) = 0) =>
         suggestedTags = <<S_Recetas, S_Ideas>>

(***************************************************************************)
(* Correction parsing as a function of the message                         *)
(***************************************************************************)
\* the tag names a correction message lists, at most
MaxPieces == 2

S_CocinaItaliana == <<"C", "o", "c", "i", "n", "a", " ", "i", "t", "a", "l", "i", "a", "n", "a">>

S_hoy == <<"h", "o", "y">>

P_cambiaLaEtiquetaA == <<"c", "a", "m", "b", "i", "a", " ", "l", "a", " ", "e", "t", "i", "q", "u", "e", "t", "a", " ", "a">>

P_deberiaSer == <<"d", "e", "b", "e", "r", "í", "a", " ", "s", "e", "r">>

P_laEtiqueta == <<"l", "a", " ", "e", "t", "i", "q", "u", "e", "t", "a">>

P_categoria == <<"c", "a", "t", "e", "g", "o", "r", "í", "a">>

TagNames == {S_Recetas, S_Ideas, S_CocinaItaliana, S_hoy}

TagSeparators == {<<",", " ">>, <<" ", "y", " ">>}

\* the texts that list n tag names
RECURSIVE TagLists(_)
TagLists(n) ==
  IF n = 1 THEN TagNames
  ELSE {l \o sep \o t : l \in TagLists(n - 1), sep \in TagSeparators,
                          t \in TagNames}

CorrectionPrefixes == {P_cambiaLaEtiquetaA, P_deberiaSer, P_laEtiqueta,
                       P_categoria}

\* a prefix, a blank and a list of tag names; and texts that are no
\* correction
ParseInputs ==
  {p \o <<" ">> \o x :
     p \in CorrectionPrefixes, x \in UNION {TagLists(n) : n \in 1..MaxPieces}}
    \cup {T_noEntiendo, T_hola, T_guarda}

InitParse ==
  /\ parseInput \in ParseInputs
  /\ parsed = [matched |-> FALSE, newTags |-> <<>>]
  /\ queryReply = "none"
  /\ phase = "input"
  /\ suggestedTags = <<>>
  /\ candidates = <<>>
  /\ query = <<>>
  /\ apiUp = TRUE
  /\ results = <<>>
  /\ searchLog = "none"
  /\ conversationContext = [j \in {U_user1} |-> EmptyContext]
  /\ pages = <<>>
  /\ aiEnabled = TRUE
  /\ batchLeft = 0
  /\ turn = NoTurn
  /\ NoInterleaving

\* one call of parseTagCorrection(message)
ParseCorrection ==
  /\ phase = "input"
  /\ parsed' = parseTagCorrection(parseInput)
  /\ phase' = "done"
  /\ UNCHANGED <<parseInput, suggestedTags, queryReply, candidates, query,
                 apiUp, results,
                 searchLog, dialogueVars, interleavingVars>>

NextParse == ParseCorrection

SpecParse == InitParse /\ [][NextParse]_vars

(***************************************************************************)
(* Properties of the correction parsing                                    *)
(***************************************************************************)
StartsWith(s, prefix) ==
  Len(s) >= Len(prefix) /\ SubSeq(s, 1, Len(prefix)) = prefix

\* the text of s behind its first n characters
After(s, n) == SubSeq(s, n + 1, Len(s))

\* C15: for 'cambia la etiqueta a X' the parser returns the pieces of X
\* split on ',' and 'y', trimmed, without the empty ones; 'cambia la
\* etiqueta a Recetas, Ideas' gives <<Recetas, Ideas>>; 'no entiendo'
\* matches no pattern.
C15_CambiaGivesPiecesOfX ==
  phase = "done" =>
    /\ StartsWith(parseInput, P_cambiaLaEtiquetaA \o <<" ">>) =>
         /\ parsed.matched
         /\ parsed.newTags =
              NewTagsOf(After(parseInput, Len(P_cambiaLaEtiquetaA) + 1))
    /\ parseInput = T_cambia => parsed.newTags = <<S_Recetas, S_Ideas>>
    /\ parseInput = T_noEntiendo => ~parsed.matched

\* C20: for a message matched first by the third or fourth pattern the
\* group is the whole text behind the keyword, so the new tags are the
\* pieces of that text; 'la etiqueta Recetas, Ideas' gives
\* <<Recetas, Ideas>>.
C20_KeywordGivesWholeText ==
  phase = "done" =>
    /\ StartsWith(parseInput, P_laEtiqueta) =>
         /\ parsed.matched
         /\ parsed.newTags = NewTagsOf(After(parseInput, Len(P_laEtiqueta)))
    /\ StartsWith(parseInput, P_categoria) =>
         /\ parsed.matched
         /\ parsed.newTags = NewTagsOf(After(parseInput, Len(P_categoria)))
    /\ parseInput = T_laEtiqueta => parsed.newTags = <<S_Recetas, S_Ideas>>

\* C23: whenever parseTagCorrection returns a correction its newTags is not
\* empty, so a correction matched by a pattern never hands updateNoteTags an
\* empty tag list
C23_NewTagsNotEmpty ==
  (phase = "done" /\ parsed.matched) => parsed.newTags # <<>>

(***************************************************************************)
(* Further properties of the dialogue                                      *)
(***************************************************************************)
\* C17: after a successful save lastNote.id is the store's identifier of
\* the page just created, and a tag correction calls updateNoteTags with
\* the identifier of a page of the store.
C17_LastNoteIdIsPageId ==
  /\ (/\ turn.path = "classified"
      /\ turn.intent = "save_note"
      /\ turn.calls[1].ok
      /\ ContextNow # turn.before) =>
       /\ ContextNow.lastNote # <<>>
       /\ ContextNow.lastNote[1].id = pages[Len(pages)].id
  /\ turn.path = "correction" => turn.calls[1].id \in PageIds(pages)

\* a classified turn in AwaitingCorrection whose text is no correction and
\* whose intent is not a conversation with a greeting
OrdinaryTurnWhileAwaiting ==
  /\ turn.path = "classified"
  /\ turn.before.awaitingTagCorrection
  /\ turn.before.lastNote # <<>>
  /\ ~ParsedCorrection(turn.text).matched
  /\ ~(turn.intent = "conversation" /\ GreetingText(turn.text))

\* C18 as stated: such a turn leaves awaitingTagCorrection true and
\* lastNote the note it was.
C18_AwaitingPreserved ==
  OrdinaryTurnWhileAwaiting =>
    /\ ContextNow.awaitingTagCorrection
    /\ ContextNow.lastNote = turn.before.lastNote

\* C18 amended: such a turn leaves awaitingTagCorrection and lastNote as
\* they were, with two exceptions: a save_note turn whose create succeeded
\* and which offers a correction (suggested tags that the note lacks, or no
\* suggested tags) keeps awaitingTagCorrection and makes the note just
\* saved the lastNote; a tag_correction intent whose updateNoteTags call
\* succeeded clears both.
C18_PreservedUnlessSavedAgain ==
  OrdinaryTurnWhileAwaiting =>
    IF turn.intent = "tag_correction" /\ turn.calls # <<>> /\ turn.calls[1].ok
    THEN ~ContextNow.awaitingTagCorrection /\ ContextNow.lastNote = <<>>
    ELSE /\ ContextNow.awaitingTagCorrection
         /\ IF /\ turn.intent = "save_note"
               /\ turn.calls[1].ok
               /\ FirstReply \in {"saved_with_suggestions", "saved_tags_ok"}
            THEN ContextNow.lastNote =
                   <<[id |-> turn.calls[1].id,
                      titulo |-> turn.env.raw.titulo,
                      etiquetas |-> turn.calls[1].tags]>>
            ELSE ContextNow.lastNote = turn.before.lastNote

\* a second save while a correction is awaited replaced the pending note
C18_Witness ==
  /\ OrdinaryTurnWhileAwaiting
  /\ turn.intent = "save_note"
  /\ turn.calls[1].ok
  /\ ContextNow.awaitingTagCorrection
  /\ ContextNow.lastNote # turn.before.lastNote

(***************************************************************************)
(* Interleaving of turns.  sock.ev.on('messages.upsert', async ...) hands   *)
(* the emitter an async callback: the emitter calls it and goes on when it  *)
(* reaches its first await, so the callback of a later event runs while the *)
(* callback of an earlier one waits for the classifier, the store or the    *)
(* send.  Inside one callback the loop awaits handleMessage, so the         *)
(* messages of one batch are handled one after the other.  Between two      *)
(* awaits a callback runs alone.  A turn reads its context object when it   *)
(* starts (conversationContext.get(remoteJid) || {}), then awaits, then     *)
(* assigns to the fields of that object and stores it under its key.       *)
(***************************************************************************)
\* the text of these turns matches no correction pattern and is no greeting,
\* so every turn takes the classified branch
InterleavedTexts == {T_noEntiendo}

InterleavedMessages ==
  {[remoteJid |-> j, text |-> t] : j \in Jids, t \in InterleavedTexts}

\* what the classifier and the store give to an interleaved turn
InterleavedEnvs ==
  {Env([RawOutput("json", "save_note") EXCEPT
          !.titulo = S_PastaItaliana, !.contenido = S_pastaConTomate,
          !.etiquetas = Tags(<<S_Ideas>>)], <<>>, TRUE, 0),
   Env([RawOutput("json", "query") EXCEPT
          !.queryType = "by_keyword", !.parameter = S_pasta], <<>>, TRUE, 0)}

\* the lowest place that holds no object
FreeSlot(objs) ==
  CHOOSE ref \in ObjectSlots :
    /\ objs[ref] = NoObject
    /\ \A lower \in 1..(ref - 1) : objs[lower] # NoObject

\* {}: a new empty object, created for the turn of one conversation
NewObject(remoteJid) ==
  [remoteJid |-> remoteJid, value |-> EmptyContext, written |-> FALSE]

\* conversationContext.get(remoteJid) || {}: the object stored under the key,
\* or a new empty object when the Map has none
GetOrCreate_sharedEmpty(refs, objs, remoteJid) ==
  IF refs[remoteJid] # 0
  THEN [ref |-> refs[remoteJid], objects |-> objs]
  ELSE IF objs[1] # NoObject
  THEN [ref |-> 1, objects |-> objs]
  ELSE [ref |-> 1, objects |-> [objs EXCEPT ![1] = NewObject(remoteJid)]]

GetOrCreate(refs, objs, remoteJid) ==
  IF refs[remoteJid] # 0
  THEN [ref |-> refs[remoteJid], objects |-> objs]
  ELSE [ref |-> FreeSlot(objs),
        objects |-> [objs EXCEPT ![FreeSlot(objs)] = NewObject(remoteJid)]]

\* an object that neither the Map nor a running turn refers to is gone
Collect(refs, objs, cbs) ==
  [ref \in ObjectSlots |->
     IF \/ \E j \in Jids : refs[j] = ref
        \/ \E c \in BagToSet(cbs) : c.pc = "awaiting" /\ c.ref = ref
     THEN objs[ref]
     ELSE NoObject]

\* the context stored for a conversation
StoredContext(remoteJid) ==
  IF contextRefs[remoteJid] = 0 THEN EmptyContext
  ELSE objects[contextRefs[remoteJid]].value

InitInterleaved ==
  /\ conversationContext = [j \in {U_user1} |-> EmptyContext]
  /\ pages = <<>>
  /\ aiEnabled = TRUE
  /\ batchLeft = 0
  /\ turn = NoTurn
  /\ NoInterleaving
  /\ candidates = <<>>
  /\ query = <<>>
  /\ apiUp = TRUE
  /\ results = <<>>
  /\ searchLog = "none"
  /\ phase = "interleaved"
  /\ suggestedTags = <<>>
  /\ parseInput = <<>>
  /\ parsed = [matched |-> FALSE, newTags |-> <<>>]
  /\ queryReply = "none"

\* a callback in the loop over its batch, about to handle a message
Looping == [pc |-> "loop", remoteJid |-> <<>>, text |-> <<>>, ref |-> 0]

\* the emitter calls the callback of a 'notify' event with its batch
UpsertEvent ==
  /\ BagCardinality(callbacks) < MaxCallbacks
  /\ callbacks' = callbacks (+) SetToBag({Looping})
  /\ UNCHANGED <<contextRefs, objects, dialogueVars, searchVars,
                 functionVars>>

\* handleMessage for the next message of the batch, up to the first await of
\* handleIntelligentMessage: the turn takes its context object
ReadContext ==
  \E c \in BagToSet(callbacks) :
    /\ c.pc = "loop"
    /\ \E message \in InterleavedMessages :
       \E got \in {GetOrCreate(contextRefs, objects, message.remoteJid)} :
         /\ objects' = got.objects
         /\ callbacks' = (callbacks (-) SetToBag({c})) (+)
                           SetToBag({[c EXCEPT
                                        !.pc = "awaiting",
                                        !.remoteJid = message.remoteJid,
                                        !.text = message.text,
                                        !.ref = got.ref]})
    /\ UNCHANGED <<contextRefs, dialogueVars, searchVars, functionVars>>

\* the callbacks after a turn has ended: the loop goes to the next message
\* of the batch when there is one, or the callback ends with its batch
AfterTurn(cbs, c, more) ==
  IF more THEN (cbs (-) SetToBag({c})) (+) SetToBag({Looping})
  ELSE cbs (-) SetToBag({c})

\* the rest of the turn, from the last await before the assignments: the
\* branch of the intent assigns to the fields of the object the turn holds,
\* conversationContext.set stores the object under the key, the reply is
\* sent, and the loop goes to the next message or the callback ends
WriteContext ==
  \E c \in BagToSet(callbacks) :
    /\ c.pc = "awaiting"
    /\ \E env \in InterleavedEnvs, more \in BOOLEAN :
       \E out \in {ClassifiedTurn(objects[c.ref].value, pages, c.text, env)} :
         /\ Len(out.pages) <= MaxPages
         /\ contextRefs' = [contextRefs EXCEPT ![c.remoteJid] = c.ref]
         /\ callbacks' = AfterTurn(callbacks, c, more)
         /\ objects' =
              Collect(contextRefs', 
                      [objects EXCEPT ![c.ref] =
                         [@ EXCEPT !.value = out.context, !.written = TRUE]],
                      callbacks')
         /\ pages' = out.pages
    /\ UNCHANGED <<conversationContext, aiEnabled, batchLeft, turn, searchVars,
                   functionVars>>

NextInterleaved ==
  \/ UpsertEvent
  \/ ReadContext
  \/ WriteContext

SpecInterleaved == InitInterleaved /\ [][NextInterleaved]_vars

(***************************************************************************)
(* Properties of interleaved turns                                          *)
(***************************************************************************)
\* the turns that have taken their context object and not yet stored it
InFlight == {c \in BagToSet(callbacks) : c.pc = "awaiting"}

\* two turns of one conversation are in flight at the same time
Overlap ==
  \E c \in InFlight :
    \/ CopiesIn(c, callbacks) > 1
    \/ \E d \in InFlight : d # c /\ d.remoteJid = c.remoteJid

\* a step puts another object in the place of the one stored for a
\* conversation: what the earlier turn stored is no longer in the Map
Overwritten ==
  \E j \in Jids : contextRefs[j] # 0 /\ contextRefs'[j] # contextRefs[j]

\* C16: a turn of one conversation neither reads nor changes the context
\* stored for another conversation, however the turns of the conversations
\* interleave: the object a turn holds was created for its own conversation,
\* and a step changes the stored context of a conversation only when it is
\* the step in which a turn of that conversation stores its context, so the
\* context of a conversation is what its own turns made it
C16_ConversationsIsolated ==
  [][/\ \A j \in Jids :
          StoredContext(j)' # StoredContext(j) =>
            \E c \in InFlight :
              /\ c.remoteJid = j
              /\ CopiesIn(c, callbacks') < CopiesIn(c, callbacks)
     /\ \A c \in InFlight' : objects'[c.ref].remoteJid = c.remoteJid
     /\ \A j \in Jids :
          contextRefs'[j] # 0 => objects'[contextRefs'[j]].remoteJid = j]_vars

\* the first conversation has a saved note in its context, and the second
\* has a query in its context and a turn in flight
C16_Witness ==
  /\ StoredContext(U_user1).lastNote # <<>>
  /\ StoredContext(U_user2).lastQuery # <<>>
  /\ StoredContext(U_user2).lastNote = <<>>
  /\ \E c \in InFlight : c.remoteJid = U_user2

\* C19: the turns of one conversation never overlap, whether their messages
\* come in one batch or in separate events: no two turns of a conversation
\* are between taking the context and storing it at the same time, and no
\* turn stores its context over the object that an earlier turn stored
C19_TurnsNeverOverlap == [][~Overlap' /\ ~Overwritten]_vars

(***************************************************************************)
(* Properties of the wording of a search reply                             *)
(***************************************************************************)
\* the reply to a keyword search that found notes has been worded
Worded == phase = "replied" /\ apiUp /\ query # <<>> /\ results # <<>>

\* C21: the wording of a by_keyword reply agrees with the tier that gave the
\* results: the exact wording is used only for results of the exact tier,
\* the 'related' wording only for results of the synonym tier, and the
\* 'might interest you' wording only for results of the fuzzy tier
C21_WordingAgreesWithTier ==
  Worded =>
    /\ queryReply = "exact" => searchLog = "Found exact matches"
    /\ queryReply = "related" => searchLog = "Found synonym matches"
    /\ queryReply = "might_interest" => searchLog = "Search completed"

(***************************************************************************)
(* Properties of every stored context                                      *)
(***************************************************************************)
\* C22: in every stored context, after any sequence of completed turns,
\* awaitingTagCorrection is true exactly when lastNote is present: the two
\* fields are set together and cleared together
C22_FlagIffNote ==
  \A j \in DOMAIN conversationContext :
    conversationContext[j].awaitingTagCorrection
      <=> conversationContext[j].lastNote # <<>>

\* a greeting has cleared a context in which a note was pending
C22_Witness ==
  /\ turn.path = "classified"
  /\ turn.intent = "conversation"
  /\ turn.before.awaitingTagCorrection
  /\ turn.before.lastNote # <<>>
  /\ ~ContextNow.awaitingTagCorrection
  /\ ContextNow.lastNote = <<>>

(***************************************************************************)
(* Properties of the replies                                               *)
(***************************************************************************)
\* the turns that answer: the correction path, the classified path, the
\* prompt for a missing text and the notice that the AI is disabled
ReplyingPaths == {"correction", "classified", "no_text", "ai_disabled"}

\* what is dropped: a batch that is not 'notify', a message without content,
\* a message of the bot itself, a group message
DroppedPaths == {"not_notify", "no_content", "from_me", "group"}

\* no send of the turn failed
NoSendFailed(t) == \A i \in 1..Len(t.sends) : t.sends[i].ok

====
